---- MODULE Spec2Model ----
(***************************************************************************)
(* collect-symbols (src/utils/collect-symbols.c): a byte-level model of    *)
(* the character stream, the token ring buffer, the tokenizer, the symbol  *)
(* recognizer, the symbol table and the output formatter.                  *)
(*                                                                         *)
(* Bytes are their ASCII codes, strings are sequences of bytes, the end of *)
(* stream sentinel of input_read is the byte 0.  Every action is one       *)
(* iteration of the loop the program counter `pc` stands in (one           *)
(* input_read and what the code does with the byte), or one statement      *)
(* group of extract_symbols or main.                                       *)
(*                                                                         *)
(* The four size constants keep the source's names and are scaled down so  *)
(* that their limits are reached by short inputs; the scaling keeps the    *)
(* source's relations: an identifier holds at most MAX_TOKEN-2 bytes, the  *)
(* ring holds any three consecutive lexemes, and MAX_TOKENS lexemes of     *)
(* maximal length do not fit the ring (64 * 512 > 16384 in the source).    *)
(***************************************************************************)
EXTENDS Integers, Sequences, FiniteSets, TLC

\* ------------------------------------------------------------------ bytes
CH_NUL    == 0
CH_TAB    == 9
CH_NL     == 10
CH_SP     == 32
CH_DQ     == 34
CH_HASH   == 35
CH_DOLLAR == 36
CH_SQ     == 39
CH_LPAREN == 40
CH_RPAREN == 41
CH_STAR   == 42
CH_COMMA  == 44
CH_SEMI   == 59
CH_EQ     == 61
CH_LBRACK == 91
CH_BSL    == 92
CH_RBRACK == 93
CH_USCORE == 95
CH_LBRACE == 123
CH_RBRACE == 125

\* the source's size constants, scaled (see the header)
READBUF_SIZE == 8
RINGBUF_SIZE == 32
MAX_TOKEN    == 16
MAX_TOKENS   == 8

\* the NULL of a char * (ringbuf_save, input_collect_word, symbol_from_tokens)
NULL == -1

\* string literals of the source
STR_typedef   == <<116, 121, 112, 101, 100, 101, 102>>
STR_static    == <<115, 116, 97, 116, 105, 99>>
STR_attribute == <<95, 95, 97, 116, 116, 114, 105, 98, 117, 116, 101, 95, 95>>

\* ------------------------------------------------------ sequences of bytes
RECURSIVE Flatten(_)
Flatten(ss) == IF ss = <<>> THEN <<>> ELSE Head(ss) \o Flatten(Tail(ss))

SeqsUpTo(S, n) == UNION {[1..k -> S] : k \in 0..n}

Min(a, b) == IF a < b THEN a ELSE b

Repeat(c, k) == [j \in 1..k |-> c]

\* ------------------------------------------------------- character stream
\* read(2) on the pipe's read end: the next bytes of the preprocessor's
\* output, at most `size` of them; the empty sequence at end of stream
sys_read(stream, off, size) == SubSeq(stream, off + 1, Min(Len(stream), off + size))

input_init(fd) ==
    [fd |-> fd, buf |-> Repeat(CH_NUL, READBUF_SIZE), len |-> 0, rd |-> 0, nxt |-> 0]

\* the byte delivered, the input_t afterwards and the pipe's new offset
input_read(inp, stream, off) ==
    IF inp.nxt # 0
    THEN [ch |-> inp.nxt, in |-> [inp EXCEPT !.nxt = 0], off |-> off]
    ELSE IF inp.len <= inp.rd
         THEN LET data == sys_read(stream, off, READBUF_SIZE)
                  k    == Len(data)
                  buf2 == [j \in 1..READBUF_SIZE |->
                              IF j <= k THEN data[j] ELSE inp.buf[j]]
              IN  IF k > 0
                  THEN [ch  |-> data[1],
                        in  |-> [inp EXCEPT !.buf = buf2, !.len = k, !.rd = 1],
                        off |-> off + k]
                  ELSE [ch |-> CH_NUL, in |-> [inp EXCEPT !.len = k], off |-> off]
         ELSE [ch  |-> inp.buf[inp.rd + 1],
               in  |-> [inp EXCEPT !.rd = inp.rd + 1],
               off |-> off]

input_pushback_inverted(inp, ch) ==
    IF inp.nxt # 0
    THEN [in |-> [inp EXCEPT !.nxt = ch], ret |-> 0]
    ELSE [in |-> inp, ret |-> -1]

input_pushback_overwrite(inp, ch) == [in |-> [inp EXCEPT !.nxt = ch], ret |-> 0]

input_pushback(inp, ch) ==
    IF inp.nxt = 0
    THEN [in |-> [inp EXCEPT !.nxt = ch], ret |-> 0]
    ELSE [in |-> inp, ret |-> -1]

WORD_CHAR(c) ==
    \/ 97 <= c /\ c <= 122
    \/ 65 <= c /\ c <= 90
    \/ 48 <= c /\ c <= 57
    \/ c = CH_USCORE \/ c = CH_DOLLAR

\* the closing byte input_discard_block's switch picks for `beg`
block_end(b) ==
    IF b = CH_LBRACE THEN CH_RBRACE
    ELSE IF b = CH_LBRACK THEN CH_RBRACK
    ELSE CH_RPAREN

block_level_flat(lvl, ch, b) == IF ch = block_end(b) THEN lvl - 1 ELSE lvl

\* input_discard_block's default branch: the nesting level after byte ch
block_level(lvl, ch, b) ==
    IF ch = block_end(b) THEN lvl - 1
    ELSE IF ch = b THEN lvl + 1
    ELSE lvl

\* -------------------------------------------------------------- token ring
ringbuf_init == [buf |-> Repeat(CH_NUL, RINGBUF_SIZE), wr |-> 0]

ringbuf_save_tight(r, token, len) ==
    LET n0   == RINGBUF_SIZE - 1 - r.wr
        wrap == n0 < len
        n    == IF wrap THEN RINGBUF_SIZE - 1 ELSE n0 + 1
        t    == IF wrap THEN 0 ELSE r.wr
    IN  IF n >= len + 1
        THEN [rb |-> [buf |-> [j \in 1..RINGBUF_SIZE |->
                                  IF t < j /\ j <= t + len THEN token[j - t]
                                  ELSE IF j = t + len + 1 THEN CH_NUL
                                  ELSE r.buf[j]],
                      wr  |-> t + len + 1],
              t  |-> t]
        ELSE [rb |-> r, t |-> NULL]

\* the ring afterwards and the offset t of the saved copy (NULL: no room)
ringbuf_save(r, token, len) ==
    LET n0   == RINGBUF_SIZE - 1 - r.wr
        wrap == n0 < len + 1
        n    == IF wrap THEN RINGBUF_SIZE - 1 ELSE n0
        t    == IF wrap THEN 0 ELSE r.wr
    IN  IF n >= len + 1
        THEN [rb |-> [buf |-> [j \in 1..RINGBUF_SIZE |->
                                  IF t < j /\ j <= t + len THEN token[j - t]
                                  ELSE IF j = t + len + 1 THEN CH_NUL
                                  ELSE r.buf[j]],
                      wr  |-> t + len + 1],
              t  |-> t]
        ELSE [rb |-> r, t |-> NULL]

\* the NUL-terminated string at offset p of the ring (what strcmp, strdup
\* and regexec read through a token's value pointer)
CStr(buf, p) ==
    LET e == CHOOSE e \in p..(RINGBUF_SIZE - 1) :
                 /\ buf[e + 1] = CH_NUL
                 /\ \A j \in p..(e - 1) : buf[j + 1] # CH_NUL
    IN  [j \in 1..(e - p) |-> buf[p + j]]

\* ------------------------------------------------------- symbol recognizer
MATCHING_TOKEN_untyped(toks, buf, n, type, val) ==
    val = <<>> \/ val = CStr(buf, toks[n + 1].value)

MATCHING_TOKEN(toks, buf, n, type, val) ==
    /\ toks[n + 1].type = type
    /\ (val = <<>> \/ val = CStr(buf, toks[n + 1].value))

\* the flag loop of symbol_from_tokens, from index k on
RECURSIVE token_flags(_, _, _, _, _)
token_flags(toks, nt, buf, k, f) ==
    IF k >= nt THEN f
    ELSE token_flags(toks, nt, buf, k + 1,
            IF MATCHING_TOKEN(toks, buf, k, "BLOCK", <<CH_LPAREN>>)
                THEN [f EXCEPT !.has_paren = 1]
            ELSE IF MATCHING_TOKEN(toks, buf, k, "BLOCK", <<CH_LBRACE>>)
                THEN [f EXCEPT !.has_curly = 1]
            ELSE IF MATCHING_TOKEN(toks, buf, k, "BLOCK", <<CH_LBRACK>>)
                THEN [f EXCEPT !.has_bracket = 1]
            ELSE IF MATCHING_TOKEN(toks, buf, k, "ASSIGN", <<>>)
                THEN [f EXCEPT !.has_assign = 1 + k]
            ELSE f)

\* the value pointer (ring offset) of the symbol, or NULL
symbol_from_tokens(toks, nt, buf) ==
    LET f == token_flags(toks, nt, buf, 0,
                 [has_paren |-> 0, has_curly |-> 0, has_bracket |-> 0,
                  has_assign |-> 0])
        last == nt - 1
        a == f.has_assign - 1
    IN  IF toks[1].type # "WORD" THEN NULL
        ELSE IF \/ MATCHING_TOKEN(toks, buf, 0, "WORD", STR_typedef)
                \/ MATCHING_TOKEN(toks, buf, 0, "WORD", STR_static) THEN NULL
        ELSE IF /\ last > 2
                /\ MATCHING_TOKEN(toks, buf, last, "SEMICOLON", <<>>)
                /\ MATCHING_TOKEN(toks, buf, last - 1, "BLOCK", <<CH_LPAREN>>)
                /\ MATCHING_TOKEN(toks, buf, last - 2, "WORD", <<>>)
             THEN toks[last - 2 + 1].value
        ELSE IF /\ last > 1 /\ f.has_assign # 0
                /\ a > 0 /\ MATCHING_TOKEN(toks, buf, a - 1, "WORD", <<>>)
             THEN toks[a - 1 + 1].value
        ELSE IF /\ last > 1 /\ f.has_assign # 0
                /\ a > 1
                /\ MATCHING_TOKEN(toks, buf, a - 1, "BLOCK", <<CH_LBRACK>>)
                /\ MATCHING_TOKEN(toks, buf, a - 2, "WORD", <<>>)
             THEN toks[a - 2 + 1].value
        ELSE IF /\ last > 1 /\ f.has_paren = 0 /\ f.has_curly = 0
                /\ MATCHING_TOKEN(toks, buf, last, "SEMICOLON", <<>>)
                /\ MATCHING_TOKEN(toks, buf, last - 1, "WORD", <<>>)
             THEN toks[last - 1 + 1].value
        ELSE NULL

\* ------------------------------------------------------------ symbol table
symtab_init == <<>>

\* st->syms[0..nsym) after symtab_add(st, sym); sym is the string strcmp
\* and strdup read
symtab_add_always(tab, s) == Append(tab, s)

symtab_add_front(tab, sym) ==
    IF \E k \in 1..Len(tab) : tab[k] = sym THEN tab ELSE <<sym>> \o tab

symtab_add_last(tab, sym) ==
    IF Len(tab) > 0 /\ tab[Len(tab)] = sym THEN tab ELSE Append(tab, sym)

symtab_add(tab, sym) ==
    IF \E k \in 1..Len(tab) : tab[k] = sym THEN tab ELSE Append(tab, sym)

\* regexec(re, sym, 0, NULL, 0) == 0 for a pattern without metacharacters:
\* the pattern occurs somewhere in sym
regexec_match(pat, sym) ==
    \E k \in 0..(Len(sym) - Len(pat)) : SubSeq(sym, k + 1, k + Len(pat)) = pat

symtab_dump_global(tab, gnuld) ==
    IF gnuld = 0
    THEN [k \in 1..Len(tab) |-> [line |-> "sym", sym |-> tab[k]]]
    ELSE <<[line |-> "{", sym |-> <<>>], [line |-> "    global:", sym |-> <<>>]>>
         \o [k \in 1..Len(tab) |-> [line |-> "        sym;", sym |-> tab[k]]]
         \o <<[line |-> "    local:", sym |-> <<>>],
              [line |-> "        *;", sym |-> <<>>],
              [line |-> "};", sym |-> <<>>]>>

\* the lines symtab_dump prints
symtab_dump(tab, gnuld) ==
    IF gnuld = 0
    THEN [k \in 1..Len(tab) |-> [line |-> "sym", sym |-> tab[k]]]
    ELSE <<[line |-> "{", sym |-> <<>>]>>
         \o (IF Len(tab) > 0
             THEN <<[line |-> "    global:", sym |-> <<>>]>>
                  \o [k \in 1..Len(tab) |-> [line |-> "        sym;", sym |-> tab[k]]]
             ELSE <<>>)
         \o <<[line |-> "    local:", sym |-> <<>>],
              [line |-> "        *;", sym |-> <<>>],
              [line |-> "};", sym |-> <<>>]>>

\* ------------------------------------------------------------------- state
VARIABLES
    files,      \* the preprocessor's output for cfg.files[0..nfile), as bytes
    cfg,        \* config_t: pattern (with has_pattern: pattern != NULL), gnuld, output
    pc,         \* the loop or statement the program is at
    i,          \* main's file index
    in,         \* input_t of extract_symbols
    fdoff,      \* the pipe's read offset into files[i]
    rb,         \* ringbuf_t of extract_symbols
    tokens,     \* tokens[0..n) of collect_tokens / tokens[0..ntoken) of extract_symbols
    has_paren,  \* collect_tokens' has_paren
    ntoken,     \* extract_symbols' ntoken: the last return value of collect_tokens
    blk,        \* input_discard_block's beg, level and input_discard_quoted's quote
    word,       \* input_collect_word's buf[0..n)
    st,         \* symtab_t: syms[0..nsym)
    stdout,     \* what has been written to stdout
    outfile,    \* what has been written to cfg.output
    sym,        \* extract_symbols' sym: the pointer symbol_from_tokens returned
    status,     \* the exit status, once main has returned
    ret         \* the value the last direct call of input_read or
                \* input_pushback returned to its caller (InputSpec)

vars == <<files, cfg, pc, i, in, fdoff, rb, tokens, has_paren, ntoken, blk,
          word, st, stdout, outfile, sym, status, ret>>

nfile == Len(files)

\* the byte stream behind the current fd
File == IF i < nfile THEN files[i + 1] ELSE <<>>

\* the number of bytes of File the scanner has consumed so far
Pos ==
    fdoff - (IF in.rd < in.len THEN in.len - in.rd ELSE 0)
          - (IF in.nxt # 0 THEN 1 ELSE 0)

no_ret == [op |-> "none", arg |-> 0, val |-> 0]

no_blk == [beg |-> 0, level |-> 0, quote |-> 0, at |-> 0]

\* token_t, with the lexeme as it was saved (lex) and the offset in File of
\* its first byte (at) kept beside the value pointer
Token(type, value, lex, at) == [type |-> type, value |-> value, lex |-> lex, at |-> at]

\* the tokenizer's part of the state after a step
Scan(pc2, in2, off2, rb2, tok2, hp2, nt2, blk2, word2, so2) ==
    /\ pc' = pc2 /\ in' = in2 /\ fdoff' = off2 /\ rb' = rb2 /\ tokens' = tok2
    /\ has_paren' = hp2 /\ ntoken' = nt2 /\ blk' = blk2 /\ word' = word2
    /\ stdout' = so2
    /\ UNCHANGED <<files, cfg, i, st, outfile, sym, status, ret>>

\* collect_tokens returns r
Return(r, in2, off2, rb2, tok2) ==
    Scan("ct_ret", in2, off2, rb2, tok2, has_paren, r, no_blk, <<>>, stdout)

\* --------------------------------------------------------------- tokenizer
attribute_filter_second(ch, toks, buf) ==
    /\ ch = CH_LPAREN
    /\ Len(toks) > 1
    /\ toks[Len(toks)].type = "WORD"
    /\ CStr(buf, toks[Len(toks)].value) = STR_attribute

\* the test of lines 528-530: the block just skipped is an __attribute__'s
attribute_filter(ch, toks, buf) ==
    /\ ch = CH_LPAREN
    /\ Len(toks) > 0
    /\ toks[Len(toks)].type = "WORD"
    /\ CStr(buf, toks[Len(toks)].value) = STR_attribute

function_body_any(v, hp) == v = CH_LBRACE

\* the test of lines 541-553: the block token just appended ends the unit
function_body(v, hp) == v # CH_LPAREN /\ v = CH_LBRACE /\ hp = 1

semicolon_return_before(k) == k

\* the value collect_tokens returns at a semicolon read with k tokens
\* collected: the semicolon is a token of the unit (line 501)
semicolon_return(k) == k + 1

has_room_inclusive(n, ntok) == n <= ntok

\* the test of collect_tokens' while loop (line 496)
has_room(n, ntok) == n < ntok

\* one iteration of collect_tokens' while loop
collect_tokens ==
    /\ pc = "collect"
    /\ IF ~has_room(Len(tokens), MAX_TOKENS)
       THEN Return(-1, in, fdoff, rb, tokens)
       ELSE
       LET r  == input_read(in, File, fdoff)
           ch == r.ch
           n  == Len(tokens)
           at == Pos
       IN  IF ch = CH_SEMI
           THEN LET s == ringbuf_save(rb, <<CH_SEMI>>, 1)
                IN  Return(semicolon_return(n), r.in, r.off, s.rb,
                           Append(tokens, Token("SEMICOLON", s.t, <<CH_SEMI>>, at)))
           ELSE IF ch = CH_HASH
           THEN Scan("line", r.in, r.off, rb, tokens, has_paren, ntoken, blk, word, stdout)
           ELSE IF ch = CH_SP \/ ch = CH_TAB
           THEN Scan("ws", r.in, r.off, rb, tokens, has_paren, ntoken, blk, word, stdout)
           ELSE IF ch = CH_NL
           THEN Scan("collect", r.in, r.off, rb, tokens, has_paren, ntoken, blk, word, stdout)
           ELSE IF ch = CH_LBRACE \/ ch = CH_LPAREN \/ ch = CH_LBRACK
           THEN Scan("block", r.in, r.off, rb, tokens, has_paren, ntoken,
                     [beg |-> ch, level |-> 1, quote |-> 0, at |-> at], word, stdout)
           ELSE IF ch = CH_NUL
           THEN Return(n, r.in, r.off, rb, tokens)
           ELSE IF WORD_CHAR(ch)
           THEN Scan("word", input_pushback(r.in, ch).in, r.off, rb, tokens,
                     has_paren, ntoken, [blk EXCEPT !.at = at], <<>>, stdout)
           ELSE IF ch = CH_EQ
           THEN LET s == ringbuf_save(rb, <<CH_EQ>>, 1)
                IN  Scan("collect", r.in, r.off, s.rb,
                         Append(tokens, Token("ASSIGN", s.t, <<CH_EQ>>, at)),
                         has_paren, ntoken, blk, word, stdout)
           ELSE IF ch = CH_STAR
           THEN Scan("collect", r.in, r.off, rb, tokens, has_paren, ntoken, blk, word, stdout)
           ELSE Scan("collect", r.in, r.off, rb, tokens, has_paren, ntoken, blk, word,
                     Append(stdout, [line |-> "%c", sym |-> <<ch>>]))

\* one iteration of input_discard_line's loop
input_discard_line ==
    /\ pc = "line"
    /\ LET r == input_read(in, File, fdoff)
       IN  Scan(IF r.ch # CH_NL /\ r.ch # CH_NUL THEN "line" ELSE "collect",
                r.in, r.off, rb, tokens, has_paren, ntoken, blk, word, stdout)

\* one iteration of input_discard_whitespace's loop, and the pushback after it
input_discard_whitespace ==
    /\ pc = "ws"
    /\ LET r == input_read(in, File, fdoff)
       IN  IF r.ch = CH_SP \/ r.ch = CH_TAB \/ r.ch = CH_NL
           THEN Scan("ws", r.in, r.off, rb, tokens, has_paren, ntoken, blk, word, stdout)
           ELSE Scan("collect", input_pushback(r.in, r.ch).in, r.off, rb, tokens,
                     has_paren, ntoken, blk, word, stdout)

\* collect_tokens after input_discard_block returned 0 (lines 526-555)
block_token(in2, off2) ==
    LET ch == blk.beg
        n  == Len(tokens)
    IN  IF attribute_filter(ch, tokens, rb.buf)
        THEN Scan("collect", in2, off2, rb, SubSeq(tokens, 1, n - 1), has_paren,
                  ntoken, no_blk, word, stdout)
        ELSE LET s    == ringbuf_save(rb, <<ch>>, 1)
                 toks == Append(tokens, Token("BLOCK", s.t, <<ch>>, blk.at))
             IN  IF ch = CH_LPAREN
                 THEN Scan("collect", in2, off2, s.rb, toks, 1, ntoken, no_blk,
                           word, stdout)
                 ELSE IF function_body(ch, has_paren)
                 THEN Return(n + 1, in2, off2, s.rb, toks)
                 ELSE Scan("collect", in2, off2, s.rb, toks, has_paren, ntoken,
                           no_blk, word, stdout)

\* one iteration of input_discard_block's loop
input_discard_block ==
    /\ pc = "block"
    /\ LET r == input_read(in, File, fdoff)
       IN  IF r.ch = CH_DQ \/ r.ch = CH_SQ
           THEN Scan("quoted", r.in, r.off, rb, tokens, has_paren, ntoken,
                     [blk EXCEPT !.quote = r.ch], word, stdout)
           ELSE LET lvl == block_level(blk.level, r.ch, blk.beg)
                IN  IF lvl > 0
                    THEN Scan("block", r.in, r.off, rb, tokens, has_paren, ntoken,
                              [blk EXCEPT !.level = lvl], word, stdout)
                    ELSE block_token(r.in, r.off)

quoted_next_plain(ch, quote) ==
    IF ch = quote THEN "block"
    ELSE IF ch = CH_NUL THEN "ct_ret"
    ELSE "quoted"

\* where input_discard_quoted goes after the byte ch (lines 342-351): back to
\* input_discard_block, to its return of -1, to the read of line 344, or on
quoted_next(ch, quote) ==
    IF ch = quote THEN "block"
    ELSE IF ch = CH_NUL THEN "ct_ret"
    ELSE IF ch = CH_BSL THEN "escaped"
    ELSE "quoted"

\* one iteration of input_discard_quoted's loop, up to the test of '\\'
input_discard_quoted ==
    /\ pc = "quoted"
    /\ LET r  == input_read(in, File, fdoff)
           nx == quoted_next(r.ch, blk.quote)
       IN  IF nx = "ct_ret"
           THEN Return(-1, r.in, r.off, rb, tokens)
           ELSE Scan(nx, r.in, r.off, rb, tokens, has_paren, ntoken, blk, word,
                     stdout)

\* the input_read of line 344, which skips the byte after a backslash
input_discard_escaped ==
    /\ pc = "escaped"
    /\ LET r == input_read(in, File, fdoff)
       IN  Scan("quoted", r.in, r.off, rb, tokens, has_paren, ntoken, blk, word,
                stdout)

\* one iteration of input_collect_word's loop; collect_tokens lines 568-577
\* when it returns
input_collect_word ==
    /\ pc = "word"
    /\ IF Len(word) >= MAX_TOKEN - 1
       THEN Return(-1, in, fdoff, rb, tokens)
       ELSE
       LET r == input_read(in, File, fdoff)
       IN  IF WORD_CHAR(r.ch)
           THEN Scan("word", r.in, r.off, rb, tokens, has_paren, ntoken, blk,
                     Append(word, r.ch), stdout)
           ELSE LET s == ringbuf_save(rb, word, Len(word))
                    p == input_pushback(r.in, r.ch)
                IN  IF s.t # NULL
                    THEN Scan("collect", p.in, r.off, s.rb,
                              Append(tokens, Token("WORD", s.t, word, blk.at)),
                              has_paren, ntoken, no_blk, <<>>, stdout)
                    ELSE Return(-1, p.in, r.off, s.rb, tokens)

\* ------------------------------------------------------ extract_symbols, main
\* main's loop test with i < nfile, and extract_symbols up to its first call
\* of collect_tokens (lines 747-750, 495-496)
extract_symbols ==
    /\ pc = "main" /\ i < nfile
    /\ pc' = "collect"
    /\ in' = input_init(i) /\ fdoff' = 0
    /\ rb' = ringbuf_init
    /\ tokens' = <<>> /\ has_paren' = 0
    /\ UNCHANGED <<files, cfg, i, ntoken, blk, word, st, stdout, outfile, sym, status, ret>>

\* the while test of line 752 with ntoken > 0, and line 753
recognize ==
    /\ pc = "ct_ret" /\ ntoken > 0
    /\ pc' = "sym"
    /\ sym' = symbol_from_tokens(tokens, ntoken, rb.buf)
    /\ UNCHANGED <<files, cfg, i, in, fdoff, rb, tokens, has_paren, ntoken, blk,
                   word, st, stdout, outfile, status, ret>>

accepted_unfiltered(c, buf, s) == s # NULL

\* lines 755-760: sym passes the filter
accepted(c, buf, s) ==
    s # NULL /\ (c.has_pattern = 0 \/ regexec_match(c.pattern, CStr(buf, s)))

\* lines 755-760, and the next call of collect_tokens (lines 495-496)
add_symbol ==
    /\ pc = "sym"
    /\ st' = IF accepted(cfg, rb.buf, sym) THEN symtab_add(st, CStr(rb.buf, sym)) ELSE st
    /\ pc' = "collect"
    /\ tokens' = <<>> /\ has_paren' = 0
    /\ UNCHANGED <<files, cfg, i, in, fdoff, rb, ntoken, blk, word, stdout,
                   outfile, sym, status, ret>>

close_file_fatal ==
    /\ pc = "ct_ret" /\ ntoken <= 0
    /\ IF ntoken < 0
       THEN pc' = "done" /\ status' = 1 /\ UNCHANGED i
       ELSE pc' = "main" /\ i' = i + 1 /\ UNCHANGED status
    /\ UNCHANGED <<files, cfg, in, fdoff, rb, tokens, has_paren, ntoken, blk,
                   word, st, stdout, outfile, sym, ret>>

\* the while test of line 752 with ntoken <= 0, lines 763-764 and main's i++
close_file ==
    /\ pc = "ct_ret" /\ ntoken <= 0
    /\ pc' = "main"
    /\ i' = i + 1
    /\ UNCHANGED <<files, cfg, in, fdoff, rb, tokens, has_paren, ntoken, blk,
                   word, st, stdout, outfile, sym, status, ret>>

\* main's loop test with i >= nfile, and lines 797-807
dump ==
    /\ pc = "main" /\ i >= nfile
    /\ pc' = "dumped"
    /\ IF cfg.output # 0
       THEN outfile' = outfile \o symtab_dump(st, cfg.gnuld) /\ UNCHANGED stdout
       ELSE stdout' = stdout \o symtab_dump(st, cfg.gnuld) /\ UNCHANGED outfile
    /\ UNCHANGED <<files, cfg, i, in, fdoff, rb, tokens, has_paren, ntoken, blk,
                   word, st, sym, status, ret>>

\* lines 809-817: symtab_reset and return 0
exit ==
    /\ pc = "dumped"
    /\ pc' = "done"
    /\ st' = <<>>
    /\ status' = 0
    /\ UNCHANGED <<files, cfg, i, in, fdoff, rb, tokens, has_paren, ntoken, blk,
                   word, stdout, outfile, sym, ret>>

\* ------------------------------------------------------------------ inputs
MaxPieces == 4
MaxBytes  == 4
MaxFiles  == 2

\* the letters the inputs are written in
Letter == [a |-> 97, b |-> 98, x |-> 120, z |-> 122]
A == Letter.a
B == Letter.b
X == Letter.x
Z == Letter.z

\* an identifier of the greatest length input_collect_word accepts
LONG == Repeat(Z, MAX_TOKEN - 2)

\* declarations, piece by piece: "a ", "b ", "static ", "typedef ", "=", ";",
\* "(x)", "{;}", "[x]"
Pieces ==
    { <<A, CH_SP>>, <<B, CH_SP>>, STR_static \o <<CH_SP>>, STR_typedef \o <<CH_SP>>,
      <<CH_EQ>>, <<CH_SEMI>>, <<CH_LPAREN, X, CH_RPAREN>>,
      <<CH_LBRACE, CH_SEMI, CH_RBRACE>>, <<CH_LBRACK, X, CH_RBRACK>> }

Declarations == { Flatten(ps) : ps \in SeqsUpTo(Pieces, MaxPieces) }

\* brackets and quotes, byte by byte
Brackets ==
    { CH_LPAREN, CH_RPAREN, CH_LBRACE, CH_RBRACE, CH_DQ, CH_BSL, B, CH_SEMI }

Bracketed == SeqsUpTo(Brackets, MaxBytes)

\* a b(x) __attribute__((x));
AttributeExample ==
    <<A, CH_SP, B, CH_LPAREN, X, CH_RPAREN, CH_SP>> \o STR_attribute
        \o <<CH_LPAREN, CH_LPAREN, X, CH_RPAREN, CH_RPAREN, CH_SEMI>>

\* b ab; ("b a;   (the quote is never closed)
Truncated ==
    <<B, CH_SP, A, B, CH_SEMI, CH_LPAREN, CH_DQ, B, CH_SP, A, CH_SEMI>>

\* a b;
Plain == <<A, CH_SP, B, CH_SEMI>>

\* the spec's examples and the limits of the tokenizer
Examples ==
    { \* a b(a x);
      <<A, CH_SP, B, CH_LPAREN, A, CH_SP, X, CH_RPAREN, CH_SEMI>>,
      \* static a b(x) { x; }
      STR_static \o <<CH_SP, A, CH_SP, B, CH_LPAREN, X, CH_RPAREN, CH_SP,
                      CH_LBRACE, CH_SP, X, CH_SEMI, CH_SP, CH_RBRACE>>,
      \* a b[1] = {0};
      <<A, CH_SP, B, CH_LBRACK, 49, CH_RBRACK, CH_SP, CH_EQ, CH_SP, CH_LBRACE,
        48, CH_RBRACE, CH_SEMI>>,
      \* typedef a { a x; } b;
      STR_typedef \o <<CH_SP, A, CH_SP, CH_LBRACE, CH_SP, A, CH_SP, X, CH_SEMI,
                       CH_SP, CH_RBRACE, CH_SP, B, CH_SEMI>>,
      AttributeExample,
      \* a __attribute__((x)) b { x; } a;
      <<A, CH_SP>> \o STR_attribute
          \o <<CH_LPAREN, CH_LPAREN, X, CH_RPAREN, CH_RPAREN, CH_SP, B, CH_SP,
               CH_LBRACE, X, CH_SEMI, CH_RBRACE, CH_SP, A, CH_SEMI>>,
      \* __attribute__(x) a b;
      STR_attribute \o <<CH_LPAREN, X, CH_RPAREN, CH_SP, A, CH_SP, B, CH_SEMI>>,
      \* a b = a = 0;
      <<A, CH_SP, B, CH_SP, CH_EQ, CH_SP, A, CH_SP, CH_EQ, CH_SP, 48, CH_SEMI>>,
      \* #x ; \n a \t *b , a ; \n
      <<CH_HASH, X, CH_SP, CH_SEMI, CH_NL, A, CH_TAB, CH_STAR, B, CH_COMMA, A,
        CH_SEMI, CH_NL>>,
      \* a ("\")" x) b; b a;
      <<A, CH_SP, CH_LPAREN, CH_DQ, CH_BSL, CH_DQ, CH_RPAREN, CH_DQ, CH_SP, X,
        CH_RPAREN, CH_SP, B, CH_SEMI, B, CH_SP, A, CH_SEMI>>,
      \* a {')'} b ( [ ( ] ) ) ;
      <<A, CH_LBRACE, CH_SQ, CH_RBRACE, CH_SQ, CH_RBRACE, B, CH_LPAREN,
        CH_LBRACK, CH_LPAREN, CH_RBRACK, CH_RPAREN, CH_RPAREN, CH_SEMI>>,
      \* = = = = = = = = = ;  (more than MAX_TOKENS tokens in a unit)
      Repeat(CH_EQ, MAX_TOKENS + 1) \o <<CH_SEMI>>,
      \* a unit of exactly MAX_TOKENS tokens, and one more declaration
      Repeat(CH_EQ, MAX_TOKENS - 1) \o <<CH_SEMI, A, CH_SP, B, CH_SEMI>>,
      \* MAX_TOKENS tokens and the end of the stream
      Repeat(CH_EQ, MAX_TOKENS),
      \* a b; and an identifier longer than input_collect_word accepts
      <<A, CH_SP, B, CH_SEMI>> \o LONG \o <<Z, Z, CH_SP, B, CH_SEMI>>,
      \* static LONG LONG b(x);
      STR_static \o <<CH_SP>> \o LONG \o <<CH_SP>> \o LONG
          \o <<CH_SP, B, CH_LPAREN, X, CH_RPAREN, CH_SEMI>> }

\* a a();a b;
TwoDecls == <<A, CH_SP, A, CH_LPAREN, CH_RPAREN, CH_SEMI, A, CH_SP, B, CH_SEMI>>

\* the files of a run of several files
Small ==
    { <<>>,
      Plain,
      TwoDecls,
      Truncated,
      <<CH_LBRACE, B, CH_SP, A, CH_SEMI>> }

Configs ==
    { [has_pattern |-> hp, pattern |-> IF hp = 1 THEN <<A>> ELSE <<>>,
       gnuld |-> g, output |-> o] : hp \in {0, 1}, g \in {0, 1}, o \in {0, 1} }

default_config == [has_pattern |-> 0, pattern |-> <<>>, gnuld |-> 0, output |-> 0]

\* the state main starts the file loop in (lines 777-792)
Start(fs, c) ==
    /\ files = fs /\ cfg = c
    /\ pc = "main" /\ i = 0
    /\ in = input_init(0) /\ fdoff = 0
    /\ rb = ringbuf_init
    /\ tokens = <<>> /\ has_paren = 0 /\ ntoken = 0
    /\ blk = no_blk /\ word = <<>>
    /\ st = symtab_init
    /\ stdout = <<>> /\ outfile = <<>>
    /\ sym = NULL /\ status = NULL
    /\ ret = no_ret

Init ==
    \/ \E f \in Declarations \cup Bracketed \cup Examples : Start(<<f>>, default_config)
    \/ \E fs \in SeqsUpTo(Small, MaxFiles), c \in Configs : Start(fs, c)

Next ==
    \/ extract_symbols
    \/ collect_tokens
    \/ input_discard_line
    \/ input_discard_whitespace
    \/ input_discard_block
    \/ input_discard_quoted
    \/ input_discard_escaped
    \/ input_collect_word
    \/ recognize
    \/ add_symbol
    \/ close_file
    \/ dump
    \/ exit

Spec == Init /\ [][Next]_vars

\* the program is the only process and runs until main returns: a step that
\* is possible is taken
FairSpec == Spec /\ WF_vars(Next)

\* ------------------------------------------- the character stream, by itself
\* A caller that calls input_read and input_pushback on an input_t in any
\* order, as the functions (lines 249-303) allow it to.
Pushed == {CH_NUL, A, CH_SEMI}

\* a stream longer than the read buffer
Refilled == Repeat(B, READBUF_SIZE) \o <<A, CH_SEMI>>

InputStreams == SeqsUpTo({A, B, CH_SEMI}, MaxBytes) \cup {Refilled}

InputInit ==
    \E f \in InputStreams :
        /\ files = <<f>> /\ cfg = default_config
        /\ pc = "caller" /\ i = 0
        /\ in = input_init(0) /\ fdoff = 0
        /\ rb = ringbuf_init
        /\ tokens = <<>> /\ has_paren = 0 /\ ntoken = 0
        /\ blk = no_blk /\ word = <<>>
        /\ st = symtab_init
        /\ stdout = <<>> /\ outfile = <<>>
        /\ sym = NULL /\ status = NULL
        /\ ret = no_ret

\* ch = input_read(&in)
call_input_read ==
    /\ pc = "caller"
    /\ LET r == input_read(in, File, fdoff)
       IN  /\ in' = r.in /\ fdoff' = r.off
           /\ ret' = [op |-> "input_read", arg |-> 0, val |-> r.ch]
    /\ UNCHANGED <<files, cfg, pc, i, rb, tokens, has_paren, ntoken, blk, word,
                   st, stdout, outfile, sym, status>>

\* r = input_pushback(&in, b)
call_input_pushback ==
    /\ pc = "caller"
    /\ \E b \in Pushed :
          LET p == input_pushback(in, b)
          IN  /\ in' = p.in
              /\ ret' = [op |-> "input_pushback", arg |-> b, val |-> p.ret]
    /\ UNCHANGED <<files, cfg, pc, i, fdoff, rb, tokens, has_paren, ntoken, blk,
                   word, st, stdout, outfile, sym, status>>

InputNext ==
    \/ call_input_read
    \/ call_input_pushback

InputSpec == InputInit /\ [][InputNext]_vars

\* --------------------------------------------------- the token ring, by itself
\* A caller that saves lexemes of every length input_collect_word and
\* collect_tokens can pass (0 .. MAX_TOKEN-1 bytes) and keeps the pointers, as
\* collect_tokens does in tokens[].
MaxSaves == 4

RingInit ==
    /\ files = <<>> /\ cfg = default_config
    /\ pc = "saver" /\ i = 0
    /\ in = input_init(0) /\ fdoff = 0
    /\ rb = ringbuf_init
    /\ tokens = <<>> /\ has_paren = 0 /\ ntoken = 0
    /\ blk = no_blk /\ word = <<>>
    /\ st = symtab_init
    /\ stdout = <<>> /\ outfile = <<>>
    /\ sym = NULL /\ status = NULL
    /\ ret = no_ret

\* v = ringbuf_save(&rb, token, len); the lexemes are a.., b.., a.., in turn
call_ringbuf_save ==
    /\ pc = "saver" /\ Len(tokens) < MaxSaves
    /\ \E len \in 0..(MAX_TOKEN - 1) :
          LET token == Repeat(IF Len(tokens) % 2 = 0 THEN A ELSE B, len)
              s     == ringbuf_save(rb, token, len)
          IN  /\ rb' = s.rb
              /\ ret' = [op |-> "ringbuf_save", arg |-> len, val |-> s.t]
              /\ tokens' = Append(tokens, Token("WORD", s.t, token, 0))
    /\ UNCHANGED <<files, cfg, pc, i, in, fdoff, has_paren, ntoken, blk, word,
                   st, stdout, outfile, sym, status>>

RingNext == call_ringbuf_save

RingSpec == RingInit /\ [][RingNext]_vars

\* =================================================================== claims
\* the unit extract_symbols holds, by the lexemes the tokenizer saved
n == Len(tokens)
IsWord(k)     == tokens[k].type = "WORD"
IsBlock(k, c) == tokens[k].type = "BLOCK" /\ tokens[k].lex = <<c>>
IsAssign(k)   == tokens[k].type = "ASSIGN"
IsSemi(k)     == tokens[k].type = "SEMICOLON"

\* symbol_from_tokens returned the string name / returned NULL
Returns(name) == sym # NULL /\ CStr(rb.buf, sym) = name
NoSymbol      == sym = NULL

\* the unit passes the early rejection
FirstPasses ==
    n >= 1 /\ IsWord(1) /\ tokens[1].lex # STR_typedef /\ tokens[1].lex # STR_static

\* the tail [..., Word, "(", ";"] of rule 1
PrototypeTail == n >= 3 /\ IsSemi(n) /\ IsBlock(n - 1, CH_LPAREN) /\ IsWord(n - 2)

HasAssign   == \E k \in 1..n : IsAssign(k)
FirstAssign == CHOOSE k \in 1..n : IsAssign(k) /\ \A j \in 1..(k - 1) : ~IsAssign(j)
LastAssign  == CHOOSE k \in 1..n : IsAssign(k) /\ \A j \in (k + 1)..n : ~IsAssign(j)

\* rule 2 names the Word before the first Assign / before its "[" block
AssignedWord  == FirstAssign > 1 /\ IsWord(FirstAssign - 1)
AssignedArray ==
    /\ ~AssignedWord /\ FirstAssign > 2
    /\ IsBlock(FirstAssign - 1, CH_LBRACK) /\ IsWord(FirstAssign - 2)
AssignMatch == n > 1 /\ HasAssign /\ (AssignedWord \/ AssignedArray)

\* the shape of rule 3
PlainTail ==
    /\ n > 1
    /\ \A k \in 1..n : ~IsBlock(k, CH_LPAREN) /\ ~IsBlock(k, CH_LBRACE)
    /\ IsSemi(n) /\ IsWord(n - 1)

\* C1: a unit that passes the early rejection, has at least 3 tokens and ends
\* in Word, "(" block, Semicolon yields that Word's text
C1_Prototype ==
    (pc = "sym" /\ FirstPasses /\ PrototypeTail) => Returns(tokens[n - 2].lex)

\* C2: a unit that passes the early rejection, does not match rule 1, has more
\* than 1 token and an Assign token yields the Word before the first Assign,
\* or else the Word before the "[" block before the first Assign
C2_FirstAssign ==
    (pc = "sym" /\ FirstPasses /\ ~PrototypeTail /\ n > 1 /\ HasAssign) =>
        /\ AssignedWord => Returns(tokens[FirstAssign - 1].lex)
        /\ AssignedArray => Returns(tokens[FirstAssign - 2].lex)

\* C3: a unit that passes the early rejection and matches neither rule 1 nor
\* rule 2 yields the Word before its final Semicolon when it has more than 1
\* token and no "(" or "{" block, and no symbol in every other case
C3_PlainVariable ==
    (pc = "sym" /\ FirstPasses /\ ~PrototypeTail /\ ~AssignMatch) =>
        IF PlainTail THEN Returns(tokens[n - 1].lex) ELSE NoSymbol

\* C4: a unit whose first token is not a Word, or is the Word typedef or
\* static, yields no symbol (so that add_symbol leaves the table as it is)
C4_EarlyRejection ==
    (pc = "sym" /\ n >= 1 /\ ~FirstPasses) => NoSymbol

\* the table holds no string twice
NoDuplicates ==
    \A j, k \in 1..Len(st) : j # k => st[j] # st[k]

\* the name extract_symbols is about to pass to symtab_add is in the table
AddsPresent ==
    /\ pc = "sym" /\ accepted(cfg, rb.buf, sym)
    /\ \E k \in 1..Len(st) : st[k] = CStr(rb.buf, sym)

\* C5: the symbol table never holds two equal strings, over all files of a
\* run, and symtab_add of a name it holds leaves its length, contents and
\* order as they are
C5_NoDuplicates ==
    /\ []NoDuplicates
    /\ [][AddsPresent => st' = st]_vars

\* a second file with the bytes of the first was scanned, its name was passed
\* to symtab_add again, and the table holds it once
C5_Witness ==
    /\ nfile = 2 /\ i = 1 /\ files[1] = files[2]
    /\ pc = "collect" /\ tokens = <<>> /\ ntoken > 0
    /\ accepted(cfg, rb.buf, sym)
    /\ st = <<CStr(rb.buf, sym)>>

\* the closing byte of a block opened by b
Closer(b) ==
    IF b = CH_LBRACE THEN CH_RBRACE ELSE IF b = CH_LBRACK THEN CH_RBRACK ELSE CH_RPAREN

\* the 1-based index in s of the close that balances a block opened by b, from
\* index k on at nesting depth d, q being the quote of the quoted region k is
\* in (0: none); 0 if s ends first.  A quoted region ends at its quote, and a
\* backslash in it hides the next byte.
RECURSIVE Balance(_, _, _, _, _)
Balance(s, k, b, d, q) ==
    IF k > Len(s) THEN 0
    ELSE IF q # 0
         THEN IF s[k] = q THEN Balance(s, k + 1, b, d, 0)
              ELSE IF s[k] = CH_BSL THEN Balance(s, k + 2, b, d, q)
              ELSE Balance(s, k + 1, b, d, q)
    ELSE IF s[k] = CH_DQ \/ s[k] = CH_SQ THEN Balance(s, k + 1, b, d, s[k])
    ELSE IF s[k] = Closer(b) THEN (IF d = 1 THEN k ELSE Balance(s, k + 1, b, d - 1, 0))
    ELSE IF s[k] = b THEN Balance(s, k + 1, b, d + 1, 0)
    ELSE Balance(s, k + 1, b, d, 0)

\* the offset in s of the close matching the open at offset p (-1: none)
MatchingClose(s, p) == Balance(s, p + 2, s[p + 1], 1, 0) - 1

Skipping == pc \in {"block", "quoted", "escaped"}

\* this step is the one in which input_discard_block returns 0
BlockDone == pc = "block" /\ pc' \notin {"block", "quoted"}

\* the scanner has consumed File through the close matching the open
ThroughClose == Pos' - 1 = MatchingClose(File, blk.at)

\* one Block token, whose text is the opening byte, is appended to the unit
OneBlockToken ==
    /\ Len(tokens') = n + 1
    /\ SubSeq(tokens', 1, n) = tokens
    /\ tokens'[n + 1].type = "BLOCK"
    /\ tokens'[n + 1].lex = <<blk.beg>>
    /\ CStr(rb'.buf, tokens'[n + 1].value) = <<blk.beg>>

\* the token before the block is the Word __attribute__ and the block a "("
AfterAttribute ==
    blk.beg = CH_LPAREN /\ n > 0 /\ IsWord(n) /\ tokens[n].lex = STR_attribute

\* the __attribute__ token is removed and no token is appended
Filtered == tokens' = SubSeq(tokens, 1, n - 1) /\ rb' = rb

\* a byte inside the block produces no token, saves nothing to the ring, adds
\* nothing to the table and does not end the unit
InsideSilent ==
    (Skipping /\ ~BlockDone) =>
        /\ tokens' = tokens /\ rb' = rb /\ st' = st
        /\ Skipping' \/ (pc' = "ct_ret" /\ ntoken' = -1)

Lexemes == [k \in 1..n |-> tokens[k].lex]

EofRead == in.len = 0 /\ in.nxt = 0 /\ fdoff = Len(File)

HasParenBlock(m) == \E j \in 1..m : IsBlock(j, CH_LPAREN)

Tokenizing ==
    pc \in {"collect", "line", "ws", "block", "quoted", "escaped", "word", "ct_ret", "sym"}

BoolInt(p) == IF p THEN 1 ELSE 0

\* C8: a unit returned with n > 0 tokens ends in a Semicolon, or in a "{" block
\* with a "(" block before it, or at end of input, and in exactly one of these
\* ways; a Semicolon, and a "{" block after a "(" block, are never at a
\* non-final position; the paren-seen flag is set exactly when the unit holds
\* a "(" block (so it is reset at the start of every unit)
C8_UnitTermination ==
    Tokenizing =>
        /\ \A k \in 1..(n - 1) : ~IsSemi(k)
        /\ \A k \in 1..(n - 1) : IsBlock(k, CH_LBRACE) => ~HasParenBlock(k - 1)
        /\ has_paren = BoolInt(HasParenBlock(n))
        /\ (pc = "ct_ret" /\ ntoken > 0) =>
              /\ ntoken = n
              /\ BoolInt(IsSemi(n))
                   + BoolInt(IsBlock(n, CH_LBRACE) /\ HasParenBlock(n - 1))
                   + BoolInt(EofRead) = 1

\* a unit was ended by a "{" block after a "(" block, an earlier "{" block
\* before the "(" block not having ended it
C8_Witness ==
    /\ pc = "ct_ret" /\ ntoken = n /\ n > 2 /\ ~EofRead
    /\ IsBlock(n, CH_LBRACE)
    /\ \E j \in 1..(n - 1) : IsBlock(j, CH_LBRACE) /\ HasParenBlock(n - 1) /\ ~HasParenBlock(j)

\* the output destination holds the rendering of the table
Rendered ==
    LET d == symtab_dump(st, cfg.gnuld)
        o == IF cfg.output # 0 THEN outfile ELSE stdout
    IN  Len(o) >= Len(d) /\ SubSeq(o, Len(o) - Len(d) + 1, Len(o)) = d

\* C9: when collect_tokens returns -1 the scan of the file stops as on end of
\* input: the file is closed, the table is left as it is, the next file is
\* scanned, the output is rendered and the run ends with status 0
C9_SilentTruncation ==
    /\ [][(pc = "ct_ret" /\ ntoken = -1) =>
            /\ pc' = "main" /\ i' = i + 1
            /\ st' = st /\ stdout' = stdout /\ outfile' = outfile
            /\ status' = status]_vars
    /\ [][(pc = "main" /\ i < nfile) => (pc' = "collect" /\ fdoff' = 0 /\ i' = i)]_vars
    /\ [](status \in {NULL, 0})
    /\ [](pc = "dumped" => (i = nfile /\ Rendered))
    /\ [](pc = "done" <=> status = 0)

\* the scan of the first file failed after it had added a name, the second
\* file was scanned and added its name, and the run ended with status 0
C9_Witness ==
    /\ files = <<Truncated, Plain>> /\ cfg.has_pattern = 0 /\ cfg.output = 0
    /\ pc = "done" /\ status = 0
    /\ \E j, k \in 1..Len(stdout) :
          j < k /\ stdout[j].sym = <<A, B>> /\ stdout[k].sym = <<B>>

\* C10: the input_read of input_discard_block that meets the end of the stream
\* makes it return -1, and collect_tokens with it
C10_BlockFailsAtEof ==
    [][(pc = "block" /\ input_read(in, File, fdoff).ch = CH_NUL) =>
          (pc' = "ct_ret" /\ ntoken' = -1)]_vars

\* the bytes of the ring token k points to are the lexeme saved for it
Intact(k) == CStr(rb.buf, tokens[k].value) = tokens[k].lex

\* C11: when a completed unit is handed to symbol_from_tokens, and when
\* symtab_add copies the returned name, the ring bytes behind every token of
\* the unit (and so behind the returned name) are still the lexeme that was
\* saved for the token: no ringbuf_save has wrapped over them
C11_ArenaLifetime ==
    ((pc = "ct_ret" /\ ntoken > 0) \/ pc = "sym") => \A k \in 1..n : Intact(k)

\* symbol_from_tokens returned a name for the unit, and the string it points to
Recognized == pc = "sym" /\ sym # NULL
Name       == CStr(rb.buf, sym)

\* a filter is configured / the matcher reports a match for the name
Filtering == cfg.has_pattern = 1
Match     == regexec_match(cfg.pattern, Name)

\* C12: with a filter, a recognized name is added to the table only if the
\* matcher reports a match, and a rejected name leaves the table as it is;
\* without a filter every recognized name is in the table after the step; the
\* table grows only by a recognized, accepted name, so every entry is a name
\* symbol_from_tokens returned and the filter accepted
C12_FilterGating ==
    /\ [][(Recognized /\ Filtering /\ ~Match) => st' = st]_vars
    /\ [][(Recognized /\ (~Filtering \/ Match)) =>
             \E k \in 1..Len(st') : st'[k] = Name]_vars
    /\ [][Len(st') > Len(st) =>
             /\ Recognized /\ (Filtering => Match)
             /\ st' = Append(st, Name)]_vars
    /\ [](Filtering => \A k \in 1..Len(st) : regexec_match(cfg.pattern, st[k]))

\* with the filter `a`, the name b of the first file was rejected and the name
\* ab of the second was added (a match, not a full-string match)
C12_Witness ==
    /\ files = <<Plain, Truncated>> /\ Filtering
    /\ pc = "dumped" /\ st = <<<<A, B>>>>

\* the destination symtab_dump writes to, and what this step appends to it
Out      == IF cfg.output # 0 THEN outfile ELSE stdout
Appended == LET o == IF cfg.output # 0 THEN outfile' ELSE stdout'
            IN  SubSeq(o, Len(Out) + 1, Len(o))

Dumping == pc = "main" /\ pc' = "dumped"

\* the kinds of the lines of d from index j to k
Kinds(d, j, k) == [m \in 1..(k - j + 1) |-> d[j + m - 1].line]

\* d is one line per table entry, in table order, each of kind `kind`
Entries(d, kind) ==
    /\ Len(d) = Len(st)
    /\ \A k \in 1..Len(st) : d[k] = [line |-> kind, sym |-> st[k]]

\* C13: in version-script mode the output is `{`, then, only for a non-empty
\* table, `global:` and one `<name>;` line per entry in table order, then
\* always `local:`, `*;` and `};`; in plain mode it is one `<name>` line per
\* entry in table order
C13_Rendering ==
    [][Dumping =>
         LET d == Appended
             m == Len(d)
         IN  IF cfg.gnuld = 0 THEN Entries(d, "sym")
             ELSE /\ m >= 4
                  /\ d[1].line = "{"
                  /\ Kinds(d, m - 2, m) = <<"    local:", "        *;", "};">>
                  /\ IF st = <<>> THEN m = 4
                     ELSE /\ d[2].line = "    global:"
                          /\ Entries(SubSeq(d, 3, m - 3), "        sym;")]_vars

\* a version script was rendered for a table of two entries
C13_Witness ==
    /\ pc = "dumped" /\ cfg.gnuld = 1 /\ Len(st) = 2 /\ Len(Out) = 7

\* s is a prefix of t
IsPrefix(s, t) == Len(s) <= Len(t) /\ SubSeq(t, 1, Len(s)) = s

\* C14: until symtab_dump has run, every step leaves the table a prefix of the
\* new table, and adds at most one entry, at the end; the table is reset only
\* after the output has been rendered
C14_MonotonicGrowth ==
    /\ [][pc # "dumped" => (IsPrefix(st, st') /\ Len(st') <= Len(st) + 1)]_vars
    /\ [][~IsPrefix(st, st') => (pc = "dumped" /\ Rendered /\ st' = <<>>)]_vars

\* the table grew over two files (b from the first, ab from the second), was
\* rendered and then reset
C14_Witness ==
    /\ files = <<Plain, Truncated>> /\ ~Filtering
    /\ pc = "done" /\ st = <<>>
    /\ \E j, k \in 1..Len(Out) : j < k /\ Out[j].sym = <<B>> /\ Out[k].sym = <<A, B>>

\* the names the declarations of a file of Small declare, in order
DeclaredNames(f) ==
    CASE f = Plain     -> <<<<B>>>>
      [] f = TwoDecls  -> <<<<A>>, <<B>>>>
      [] f = Truncated -> <<<<A, B>>>>
      [] OTHER         -> <<>>

\* the pattern occurs in the name
Occurs(pat, s) == \E j \in 1..(Len(s) + 1), k \in 0..Len(s) : SubSeq(s, j, k) = pat

\* the table t after the names ns, under the filter of c
RECURSIVE Insert(_, _, _)
Insert(t, ns, c) ==
    IF ns = <<>> THEN t
    ELSE LET nm == Head(ns)
         IN  Insert(IF \/ c.has_pattern = 1 /\ ~Occurs(c.pattern, nm)
                       \/ \E k \in 1..Len(t) : t[k] = nm
                    THEN t ELSE Append(t, nm),
                    Tail(ns), c)

\* the table after the first k files of fs: a function of the byte streams and
\* the filter alone
RECURSIVE TableOf(_, _, _)
TableOf(fs, c, k) ==
    IF k = 0 THEN <<>> ELSE Insert(TableOf(fs, c, k - 1), DeclaredNames(fs[k]), c)

FromSmall == \A k \in 1..nfile : files[k] \in Small

\* the file being scanned has the bytes of a file scanned before it
ScanningAgain == i < nfile /\ \E j \in 1..i : files[j] = files[i + 1]

\* C15: the table a run ends with, and the table between any two files, is a
\* function of the sequence of byte streams and the filter (so two runs over
\* the same streams with the same filter end with the same entries in the
\* same order); and scanning a byte stream a second time within a run leaves
\* the table exactly as it was
C15_Determinism ==
    /\ []((FromSmall /\ pc \in {"main", "dumped"}) => st = TableOf(files, cfg, i))
    /\ [][ScanningAgain => st' = st]_vars

\* a file that declares two names was scanned twice, and the table holds them
\* once, in the order of the first scan
C15_Witness ==
    /\ files = <<TwoDecls, TwoDecls>> /\ ~Filtering
    /\ pc = "main" /\ i = 2 /\ st = <<<<A>>, <<B>>>>

\* a byte is pending in the pushback slot
Pending == in.nxt # 0

\* this step is a call of input_pushback / of input_read
Pushes == ret'.op = "input_pushback"
Reads  == ret'.op = "input_read"

\* the step consumes nothing from the underlying stream
NothingConsumed ==
    fdoff' = fdoff /\ in'.rd = in.rd /\ in'.len = in.len /\ in'.buf = in.buf

\* C16: input_pushback(b) with no byte pending returns 0 and the next
\* input_read returns b (b # 0) without consuming from the stream;
\* input_pushback with a byte pending returns -1 and leaves the pending byte,
\* which the next input_read still returns; a read of the pending byte empties
\* the slot, so at most one byte is ever pending
C16_SingleSlotPushback ==
    /\ [][(Pushes /\ ~Pending) =>
             (ret'.val = 0 /\ in'.nxt = ret'.arg /\ NothingConsumed)]_vars
    /\ [][(Pushes /\ Pending) =>
             (ret'.val = -1 /\ in'.nxt = in.nxt /\ NothingConsumed)]_vars
    /\ [][(Reads /\ Pending) =>
             (ret'.val = in.nxt /\ in'.nxt = 0 /\ NothingConsumed)]_vars
    /\ [][(Reads /\ ret.op = "input_pushback" /\ ret.val = 0 /\ ret.arg # 0) =>
             (ret'.val = ret.arg /\ NothingConsumed)]_vars
    /\ [][(Reads /\ ret.op = "input_pushback" /\ ret.val = -1) =>
             (ret'.val = in.nxt /\ ret'.val # 0 /\ NothingConsumed)]_vars

\* `;` was pushed back while `a` was pending: the call failed and `a` is
\* still the pending byte
C16_Witness ==
    /\ pc = "caller"
    /\ ret = [op |-> "input_pushback", arg |-> CH_SEMI, val |-> -1]
    /\ in.nxt = A

\* read(2) on the current stream has returned 0: the stream is read to its end
Drained == in.len = 0 /\ fdoff = Len(File)

\* this step is close(fd), waitpid and main's advance to the next file
Closes == pc = "ct_ret" /\ pc' = "main"

\* C17: for every file the stream is read until end of stream before it is
\* closed and the scanner advances, also when the tokenizer fails part-way;
\* the stream being read is always the current file's, the only one open
C17_SynchronousDrain ==
    [][/\ Closes => (Drained /\ i' = i + 1)
       /\ Tokenizing' => in'.fd = i']_vars

\* C18: on every finite input each collect_tokens call returns, the scan loop
\* of every file ends with close and waitpid, and the run ends
C18_ScanTerminates ==
    /\ \A k \in 0..(MaxFiles + 1) : (pc = "collect" /\ i = k) ~> (pc = "main" /\ i = k + 1)
    /\ <>(pc = "done")

\* the last token of the unit is one that ends a unit
Terminated == IsSemi(n) \/ (IsBlock(n, CH_LBRACE) /\ HasParenBlock(n - 1))

\* C19: collect_tokens never holds more than MAX_TOKENS tokens and removes a
\* token only when it has one; every return value is -1 or the token count,
\* in 0..MAX_TOKENS; a unit of exactly MAX_TOKENS tokens is returned only when
\* its last token is the terminating Semicolon or "{" block; and once
\* MAX_TOKENS tokens have accumulated without a terminator the call fails,
\* whatever byte follows (none is read)
C19_TokenCapacity ==
    /\ [](Len(tokens) <= MAX_TOKENS)
    /\ [][Len(tokens') < Len(tokens) =>
             (tokens' = <<>> \/ (n >= 1 /\ tokens' = SubSeq(tokens, 1, n - 1)))]_vars
    /\ [](pc = "ct_ret" =>
             /\ ntoken \in -1..MAX_TOKENS
             /\ ntoken >= 0 => ntoken = n
             /\ ntoken = MAX_TOKENS => Terminated)
    /\ [][(pc = "collect" /\ n = MAX_TOKENS) =>
             (pc' = "ct_ret" /\ ntoken' = -1 /\ Pos' = Pos)]_vars

\* a unit of exactly MAX_TOKENS tokens was returned, ended by its Semicolon
C19_Witness ==
    pc = "ct_ret" /\ ntoken = MAX_TOKENS /\ n = MAX_TOKENS /\ IsSemi(n)

\* where a reader of a block opened by b is after the byte c: the nesting
\* depth d, the quote q of the quoted region it is in (0: none), and whether
\* the byte before was a backslash of that region (e)
AfterByte(o, c, b) ==
    IF o.e THEN [o EXCEPT !.e = FALSE]
    ELSE IF o.q # 0
         THEN IF c = o.q THEN [o EXCEPT !.q = 0]
              ELSE IF c = CH_BSL THEN [o EXCEPT !.e = TRUE]
              ELSE o
    ELSE IF c = CH_DQ \/ c = CH_SQ THEN [o EXCEPT !.q = c]
    ELSE IF c = Closer(b) THEN [o EXCEPT !.d = o.d - 1]
    ELSE IF c = b THEN [o EXCEPT !.d = o.d + 1]
    ELSE o

\* ... after the bytes s[j..k]
RECURSIVE AfterBytes(_, _, _, _, _)
AfterBytes(o, s, j, k, b) ==
    IF j > k THEN o ELSE AfterBytes(AfterByte(o, s[j], b), s, j + 1, k, b)

\* where the bytes of File consumed since the block's opening byte leave a reader
Inside == AfterBytes([d |-> 1, q |-> 0, e |-> FALSE], File, blk.at + 2, Pos, blk.beg)

\* C20: while input_discard_block skips a block, a `"` or `'` starts a quoted
\* region that ends at the next occurrence of the same quote that no backslash
\* of the region precedes; a backslash in the region skips the next byte; the
\* nesting level is the one the bytes outside quoted regions give; and at end
\* of stream inside a region input_discard_quoted, input_discard_block and
\* collect_tokens fail
C20_QuotedOpaque ==
    /\ []((Skipping /\ ~Drained) =>
             /\ blk.level = Inside.d
             /\ pc = "quoted" <=> (Inside.q # 0 /\ ~Inside.e)
             /\ pc = "escaped" <=> Inside.e
             /\ pc = "block" <=> Inside.q = 0
             /\ Inside.q # 0 => blk.quote = Inside.q)
    /\ [][(pc = "quoted" \/ pc = "escaped") =>
             (blk'.level = blk.level \/ pc' = "ct_ret")]_vars
    /\ [][(pc = "quoted" /\ Pos = Len(File)) =>
             (pc' = "ct_ret" /\ ntoken' = -1)]_vars
    /\ [][(pc = "escaped" /\ Pos = Len(File)) => pc' = "quoted"]_vars

\* in the block of `a ("\")" x) b;` the reader is past the escaped quote and
\* the `)` after it, still inside the quoted region, at level 1
C20_Witness ==
    /\ pc = "quoted" /\ blk.beg = CH_LPAREN /\ blk.level = 1 /\ blk.quote = CH_DQ
    /\ Pos >= 4
    /\ SubSeq(File, Pos - 3, Pos) = <<CH_DQ, CH_BSL, CH_DQ, CH_RPAREN>>

\* the unit was ended by the paren-then-curly heuristic: its last token is a
\* "{" block, a "(" block is before it, and it holds no Semicolon
FunctionDefinition ==
    /\ n >= 2 /\ IsBlock(n, CH_LBRACE) /\ HasParenBlock(n - 1)
    /\ \A k \in 1..n : ~IsSemi(k)

\* C21: a unit ended by the paren-then-curly heuristic that holds no Assign
\* token yields no symbol, and the step after it leaves the table as it is
C21_NoFunctionDefinitions ==
    /\ []((pc = "sym" /\ FunctionDefinition /\ ~HasAssign) => NoSymbol)
    /\ [][(pc = "sym" /\ FunctionDefinition /\ ~HasAssign) => st' = st]_vars

\* the unit [a, b, "(", "{"] of a function definition was recognized
C21_Witness ==
    /\ pc = "sym" /\ n = 4 /\ FunctionDefinition /\ ~HasAssign
    /\ IsWord(1) /\ IsWord(2) /\ IsBlock(3, CH_LPAREN)
    /\ tokens[1].lex = <<A>> /\ tokens[2].lex = <<B>>

\* this step is a call of ringbuf_save
Saves == ret'.op = "ringbuf_save" /\ Len(tokens') = n + 1

\* len + 1 bytes fit between the write offset and index RINGBUF_SIZE-1
Fits(len) == rb.wr + len + 1 <= RINGBUF_SIZE - 1

\* C22: after ringbuf_init and any saves of 0..MAX_TOKEN-1 bytes the write
\* offset is in 0..RINGBUF_SIZE-1; every save succeeds and returns a region of
\* len+1 bytes inside the buffer that holds the lexeme and a NUL, at the old
\* write offset if the bytes fit before index RINGBUF_SIZE-1 and at offset 0
\* otherwise
C22_RingBounds ==
    /\ [](0 <= rb.wr /\ rb.wr <= RINGBUF_SIZE - 1)
    /\ [][Saves =>
            LET len == ret'.arg
                t   == ret'.val
                lex == tokens'[n + 1].lex
            IN  /\ t # NULL /\ 0 <= t /\ t + len + 1 <= RINGBUF_SIZE
                /\ Len(lex) = len
                /\ \A j \in 1..len : rb'.buf[t + j] = lex[j]
                /\ rb'.buf[t + len + 1] = CH_NUL
                /\ t = (IF Fits(len) THEN rb.wr ELSE 0)
                /\ rb'.wr = t + len + 1]_vars

\* a save did not fit behind two earlier lexemes and was made at offset 0
C22_Witness ==
    /\ pc = "saver" /\ n = 3
    /\ tokens[2].value > 0 /\ tokens[3].value = 0
    /\ ret.arg = MAX_TOKEN - 1 /\ rb.wr = MAX_TOKEN

\* collect_tokens returned r
Returned(r) == pc = "ct_ret" /\ ntoken = r

\* C23: collect_tokens returns 0 only when end of input has been read with no
\* token accumulated, and every other successful return has at least one
\* token; every unit returned is handed to the recognizer, tokens leave the
\* unit only with it (or as a filtered __attribute__), and when the scan of a
\* file ends without a failure every byte of the file has been consumed
C23_NoPrematureStop ==
    /\ [](Returned(0) => (EofRead /\ tokens = <<>>))
    /\ []((pc = "ct_ret" /\ ntoken >= 0 /\ ~EofRead) => (ntoken >= 1 /\ ntoken = n))
    /\ [][(pc = "ct_ret" /\ ntoken > 0) => pc' = "sym"]_vars
    /\ [][(Tokenizing /\ Len(tokens') < n) =>
             (pc = "sym" \/ (BlockDone /\ AfterAttribute))]_vars
    /\ [][(Closes /\ ntoken = 0) => Pos = Len(File)]_vars

\* a lone `;` before the end of the input was returned as a unit of one token
C23_Witness ==
    /\ pc = "ct_ret" /\ ntoken = 1 /\ n = 1 /\ IsSemi(1)
    /\ tokens[1].at = 0 /\ Len(File) > 1 /\ ~EofRead

\* the input_read this step starts with, and the input_pushback after it
Read == input_read(in, File, fdoff)
Back == input_pushback(Read.in, Read.ch)

\* this step calls input_pushback: collect_tokens before input_collect_word,
\* input_discard_whitespace at its end, input_collect_word at the end of a word
PushesBack ==
    \/ pc = "collect" /\ pc' = "word"
    \/ pc = "ws" /\ pc' = "collect"
    \/ pc = "word" /\ pc' # "word" /\ Len(word) < MAX_TOKEN - 1

\* C24: every input_pushback of collect_tokens, input_discard_whitespace and
\* input_collect_word is made with no byte pending, right after an input_read
\* that emptied the slot, and returns 0; the byte pushed back is the next byte
\* of the stream again, and no step skips a byte
C24_PushbackSucceeds ==
    /\ [][PushesBack =>
             /\ Read.in.nxt = 0
             /\ Back.ret = 0
             /\ in' = Back.in /\ in'.nxt = Read.ch
             /\ Pos' = Pos]_vars
    /\ []((Tokenizing /\ in.nxt # 0) => (Pos < Len(File) /\ in.nxt = File[Pos + 1]))
    /\ [][(Tokenizing /\ Tokenizing') => (Pos' = Pos \/ Pos' = Pos + 1)]_vars

\* the `;` that ended a word was pushed back and is pending for collect_tokens
C24_Witness ==
    /\ pc = "collect" /\ in.nxt = CH_SEMI
    /\ n >= 1 /\ IsWord(n) /\ File[Pos + 1] = CH_SEMI

====
